---- MODULE Spec2Model ----
(***************************************************************************)
(* A model of backend/app/voice_agent.py (class VoiceAgent): the realtime  *)
(* session client with its background connection loop (connect.run_ws),    *)
(* its WebSocketApp callbacks and its send operations; of the GET /session *)
(* handler of backend/main.py (get_session); and of the Audio Frame Buffer *)
(* and the Peer Connection Bridge of spec sections 4.2 and 4.3.            *)
(*                                                                         *)
(* WebSocketApp (package websocket-client) is an external collaborator.    *)
(* Its run_forever is modelled by the outcomes run_ws distinguishes: it    *)
(* returns after the on_close callback has run, or it raises.  Its send    *)
(* succeeds only on an open socket and may fail on an open one too.        *)
(***************************************************************************)
EXTENDS Integers, Sequences, FiniteSets, TLC

\* ---------------------------------------------------------------- bounds
\* connect() calls in one run of the connection lifecycle (SpecLoop)
MaxConnects == 1
\* threads and WebSocketApp objects one agent can own (each connect() call
\* creates one of each)
MaxThreads == 2
\* on_connect_callback invocations counted for one connection
MaxConnectCalls == 2
\* audio frames handed to send_audio in one run
MaxFrames == 3
\* frames pushed to the Audio Frame Buffer in one run
MaxPush == 4
\* GET /session requests in one run
MaxRequests == 2
\* offers submitted to the downstream bridge in one run
MaxOffers == 2
\* /api/chat calls in one run, and how many may be suspended at once
MaxChats == 12
\* /api/chat calls in one run that draws requests of every kind
MaxKindChats == 3
MaxInFlight == 2
\* /api/session/update calls in one run
MaxUpdates == 3
\* /api/resume/upload calls in one run
MaxUploads == 2

\* ------------------------------------------------------ program constants
max_reconnects == 5
BackoffStep == 5
BackoffCap == 30

TrimLimit == 22
VisibleKept == 20

Threads == 1..MaxThreads
Apps == 1..MaxThreads
Producers == {1, 2}
\* the callables a caller may register; 0 stands for None
Callbacks == {1, 2}
Requests == 1..MaxRequests
Connections == 1..MaxOffers
\* list objects: the one chat_sessions holds, those suspended chat calls
\* hold, and room for the one a call creates
ListIds == 1..(MaxInFlight + 3)
Uploads == 1..MaxUploads
FileNames == {"a.pdf", "b.pdf"}

\* the agent
VARIABLES connected, ws_app, on_connect_callback
\* the background threads started by connect(), one per call
VARIABLES pc, reconnect_count, wait_time, cur
\* the WebSocketApp objects, one per connect() call: the state of the socket,
\* and whether close() has been called since run_forever was last entered
VARIABLES sock, closing
\* observation of the run: run_forever calls made, waits slept, and where the
\* thread was when stop() was last called since the last connect() ("none":
\* stop() has not been called since)
VARIABLES attempts, waits, stoppedIn
\* observation of the send operations: the last call and what the transport
\* sent during it, and the audio frames handed over and transmitted
VARIABLES lastCall, lastSends, audioLog, sentAudio
\* the message callback slot, and observation of the callbacks: the callable
\* each setter was last called with (and the one set_on_message_callback
\* displaced), the last inbound message handled while a message callback was
\* registered, and the number of on_connect_callback invocations during each
\* app's current connection
VARIABLES on_message_callback, registered, lastMsg, connectCalls
\* whether the last stop() call raised to its caller
VARIABLES stopRaised
\* the process: whether OPENAI_API_KEY is set, whether a VoiceAgent has been
\* constructed, and the GET /session requests
VARIABLES api_key, agent, sreq
\* the Peer Connection Bridge: for each downstream offer its sdp field, the
\* states its connection has been in, and the response given
VARIABLES doffer, dtrace, dresp
\* the chat session store of main.py for one session id: the list object
\* chat_sessions holds for it (0: no entry), the list objects, the chat calls
\* suspended at the model invocation with the list object each holds, the id
\* of the next chat call, the resume contexts inserted so far, and the last
\* chat and update_session calls completed
VARIABLES sessions, lists, inflight, nextChat, updates, lastChat, lastUpdate
\* the temp directory (which files exist), the upload_resume calls, and the
\* background removals scheduled
VARIABLES files, upload, removals
\* the Audio Frame Buffer
VARIABLES queue, pushed, received, nextFrame, consumer

agentVars == <<connected, ws_app, on_connect_callback>>
threadVars == <<pc, reconnect_count, wait_time, cur>>
appVars == <<sock, closing>>
loopObs == <<attempts, waits, stoppedIn>>
sendObs == <<lastCall, lastSends, audioLog, sentAudio>>
bufVars == <<queue, pushed, received, nextFrame, consumer>>
cbObs == <<on_message_callback, registered, lastMsg, connectCalls>>
apiVars == <<api_key, agent, sreq>>
bridgeVars == <<doffer, dtrace, dresp>>
httpVars == <<apiVars, bridgeVars>>
chatVars == <<sessions, lists, inflight, nextChat, updates, lastChat, lastUpdate>>
uploadVars == <<files, upload, removals>>
webVars == <<chatVars, uploadVars>>
vars == <<agentVars, threadVars, appVars, loopObs, sendObs, bufVars, cbObs,
          stopRaised, httpVars, webVars>>

Min(a, b) == IF a < b THEN a ELSE b

NoCall == [op |-> "none", was |-> FALSE, failed |-> FALSE, raised |-> FALSE,
           ret |-> "None", now |-> FALSE]

\* the record of one on_message call: the kind of message, how often the
\* message callback was invoked and which callable that was, the callable
\* set_on_message_callback was last called with by then and the one it
\* displaced, the argument passed, whether the handler raised, and whether
\* it changed self.connected
NoMsg == [kind |-> "none", calls |-> 0, to |-> 0, want |-> 0, old |-> 0,
          arg |-> "none", raised |-> FALSE, changed |-> FALSE]

\* a request not made yet, and no response
NoRequest == [pc |-> "idle", posted |-> FALSE, upstream |-> 0, status |-> 0,
              body |-> "none", read |-> FALSE]
NoResponse == [status |-> 0, field |-> "none", value |-> ""]
NoChat == [id |-> 0, req |-> "none", src |-> "none", status |-> 0, others |-> 0]
NoUpdate == [n |-> 0, kind |-> "none", status |-> 0]
NoUpload == [pc |-> "idle", name |-> "none", wrote |-> FALSE, status |-> 0]

\* VoiceAgent.__init__ (the buffer starts empty, its consumer not in recv)
InitAgent ==
    /\ connected = FALSE
    /\ ws_app = 0
    /\ on_connect_callback = 0
    /\ pc = [t \in Threads |-> "none"]
    /\ reconnect_count = [t \in Threads |-> 0]
    /\ wait_time = [t \in Threads |-> 0]
    /\ cur = [t \in Threads |-> 0]
    /\ sock = [a \in Apps |-> "none"]
    /\ closing = [a \in Apps |-> FALSE]
    /\ attempts = [t \in Threads |-> 0]
    /\ waits = [t \in Threads |-> <<>>]
    /\ stoppedIn = [t \in Threads |-> "none"]
    /\ lastCall = NoCall
    /\ lastSends = <<>>
    /\ audioLog = <<>>
    /\ sentAudio = <<>>
    /\ queue = <<>>
    /\ pushed = <<>>
    /\ received = <<>>
    /\ nextFrame = [p \in Producers |-> 1]
    /\ consumer = "idle"
    /\ on_message_callback = 0
    /\ registered = [message |-> [last |-> 0, displaced |-> 0], connect |-> 0]
    /\ lastMsg = NoMsg
    /\ connectCalls = [a \in Apps |-> 0]
    /\ stopRaised = FALSE

\* no request has been made
InitHttp ==
    /\ sreq = [r \in Requests |-> NoRequest]
    /\ doffer = [c \in Connections |-> "none"]
    /\ dtrace = [c \in Connections |-> <<>>]
    /\ dresp = [c \in Connections |-> NoResponse]
    /\ files = {}
    /\ upload = [u \in Uploads |-> NoUpload]
    /\ removals = {}

\* chat_sessions = {}: no session, no call
InitSessions ==
    /\ sessions = 0
    /\ lists = [l \in ListIds |-> <<>>]
    /\ inflight = {}
    /\ nextChat = 1
    /\ updates = 0
    /\ lastChat = NoChat
    /\ lastUpdate = NoUpdate

InitRequests ==
    /\ InitHttp
    /\ InitSessions

\* a process with OPENAI_API_KEY set, its VoiceAgent constructed
Init ==
    /\ api_key = TRUE
    /\ agent = "constructed"
    /\ InitAgent
    /\ InitRequests

\* a process at startup, with or without OPENAI_API_KEY in its environment
InitApi ==
    /\ api_key \in BOOLEAN
    /\ agent = "none"
    /\ InitAgent
    /\ InitRequests

\* ------------------------------------------------- the connection loop
\* connect.run_ws: `while reconnect_count < max_reconnects`
WhileCondOffByOne(rc) == rc <= max_reconnects
WhileCond(rc) == rc < max_reconnects

\* connect.run_ws: `if reconnect_count < max_reconnects` before the sleep
RetryCond(rc) == rc < max_reconnects

\* connect.run_ws: `wait_time = min(5 * reconnect_count, 30)`
WaitTimeSquared(rc) == Min(BackoffStep * rc * rc, BackoffCap)
WaitTime(rc) == Min(BackoffStep * rc, BackoffCap)

\* connect.run_ws, from `reconnect_count += 1` to the end of the loop body:
\* the failure is counted; a wait is computed and slept only if attempts remain
CountFailure(t) ==
    LET rc == reconnect_count[t] + 1 IN
    /\ reconnect_count' = [reconnect_count EXCEPT ![t] = rc]
    /\ IF RetryCond(rc)
       THEN /\ wait_time' = [wait_time EXCEPT ![t] = WaitTime(rc)]
            /\ waits' = [waits EXCEPT ![t] = Append(@, WaitTime(rc))]
            /\ pc' = [pc EXCEPT ![t] = "sleep"]
       ELSE /\ pc' = [pc EXCEPT ![t] = "top"]
            /\ UNCHANGED <<wait_time, waits>>

\* the record of one call of an operation of the agent: whether the agent
\* was connected before, whether the transport failed during the call,
\* whether the call raised, what it returned, and connected after it
Call(op, failed, raised, ret, now) ==
    [op |-> op, was |-> connected, failed |-> failed, raised |-> raised,
     ret |-> ret, now |-> now]

\* connect(): a new WebSocketApp replaces self.ws_app and a new daemon thread
\* running run_ws is started; self.connected is not touched, and the call
\* returns as soon as the thread is started
Connect ==
    \E t \in Threads :
        /\ pc[t] = "none"
        /\ \A u \in Threads : u < t => pc[u] /= "none"
        /\ ws_app' = t
        /\ pc' = [pc EXCEPT ![t] = "top"]
        /\ stoppedIn' = [u \in Threads |-> "none"]
        /\ UNCHANGED <<connected, on_connect_callback, reconnect_count, wait_time,
                       cur, appVars, attempts, waits, sendObs, bufVars, cbObs,
                       stopRaised, httpVars, webVars>>

\* run_ws: the while test passes and self.ws_app.run_forever(...) is called
\* on the app self.ws_app names now.  run_forever raises at once when that
\* app's socket is already in use (another thread is inside run_forever)
LoopEnter(t) ==
    /\ pc[t] = "top"
    /\ WhileCond(reconnect_count[t])
    /\ attempts' = [attempts EXCEPT ![t] = @ + 1]
    /\ IF sock[ws_app] /= "none"
       THEN /\ CountFailure(t)
            /\ UNCHANGED <<cur, appVars, connectCalls>>
       ELSE /\ sock' = [sock EXCEPT ![ws_app] = "connecting"]
            /\ closing' = [closing EXCEPT ![ws_app] = FALSE]
            /\ cur' = [cur EXCEPT ![t] = ws_app]
            /\ pc' = [pc EXCEPT ![t] = "run"]
            /\ connectCalls' = [connectCalls EXCEPT ![ws_app] = 0]
            /\ UNCHANGED <<reconnect_count, wait_time, waits>>
    /\ UNCHANGED <<agentVars, stoppedIn, sendObs, bufVars, on_message_callback,
                   registered, lastMsg, stopRaised, httpVars, webVars>>

\* run_ws: the while test fails and the thread ends
LoopExit(t) ==
    /\ pc[t] = "top"
    /\ ~WhileCond(reconnect_count[t])
    /\ pc' = [pc EXCEPT ![t] = "done"]
    /\ UNCHANGED <<agentVars, reconnect_count, wait_time, cur, appVars, loopObs,
                   sendObs, bufVars, cbObs, stopRaised, httpVars, webVars>>

\* on_open, called by run_forever when the handshake has succeeded: the
\* agent is marked connected and the connect callback, if one is registered,
\* is invoked
OnOpen(t) ==
    /\ pc[t] = "run"
    /\ sock[cur[t]] = "connecting"
    /\ sock' = [sock EXCEPT ![cur[t]] = "open"]
    /\ connected' = TRUE
    /\ connectCalls' = [connectCalls EXCEPT
                            ![cur[t]] = IF on_connect_callback /= 0 THEN 1 ELSE 0]
    /\ UNCHANGED <<ws_app, on_connect_callback, threadVars, closing, loopObs,
                   sendObs, bufVars, on_message_callback, registered, lastMsg,
                   stopRaised, httpVars, webVars>>

\* the inbound messages on_message tells apart: a binary frame, and text
\* frames holding a session.created event, a conversation.item.created event
\* whose item content can be sliced (a string, a list, or absent) or cannot
\* (null), any other JSON document, and text that is not JSON
MessageKinds == {"binary", "session.created", "item.created",
                 "item.created.null", "json", "malformed"}

\* on_message: the exception its text branch ends with.  json.loads raises
\* JSONDecodeError on text that is not JSON; `content[:100]` raises TypeError
\* when the content of a conversation.item.created event is null
OnMessageError(kind) ==
    CASE kind = "malformed" -> "JSONDecodeError"
      [] kind = "item.created.null" -> "TypeError"
      [] OTHER -> "none"

\* on_message: `except json.JSONDecodeError`
OnMessageCatches(e) == e = "JSONDecodeError"

\* on_message, called by run_forever for each inbound message.  A binary
\* frame is passed to the message callback as it is.  A text frame is parsed;
\* a session.created event marks the agent connected and invokes the connect
\* callback when one is registered and the agent is not connected; the
\* parsed document is passed to the message callback unless an exception
\* ended the handler first
OnMessage(t, kind) ==
    LET invoke == kind = "session.created" /\ on_connect_callback /= 0
                     /\ ~connected
        e == OnMessageError(kind)
        delivered == e = "none" /\ on_message_callback /= 0
    IN
    /\ pc[t] = "run"
    /\ sock[cur[t]] = "open"
    /\ invoke => connectCalls[cur[t]] < MaxConnectCalls
    /\ connected' = IF invoke THEN TRUE ELSE connected
    /\ connectCalls' = IF invoke
                       THEN [connectCalls EXCEPT ![cur[t]] = @ + 1]
                       ELSE connectCalls
    /\ lastMsg' =
          IF on_message_callback = 0 THEN lastMsg
          ELSE [kind |-> kind,
                calls |-> IF delivered THEN 1 ELSE 0,
                to |-> IF delivered THEN on_message_callback ELSE 0,
                want |-> registered.message.last,
                old |-> registered.message.displaced,
                arg |-> IF ~delivered THEN "none"
                        ELSE IF kind = "binary" THEN "message" ELSE "data",
                raised |-> e /= "none" /\ ~OnMessageCatches(e),
                changed |-> invoke]
    /\ UNCHANGED <<ws_app, on_connect_callback, threadVars, appVars, loopObs,
                   sendObs, bufVars, on_message_callback, registered,
                   stopRaised, httpVars, webVars>>

\* run_forever ends by its teardown: the handshake failed, the connection was
\* dropped, or close() was called.  on_close runs, then run_forever returns
RunForeverReturns(t) ==
    /\ pc[t] = "run"
    /\ sock' = [sock EXCEPT ![cur[t]] = "none"]
    /\ connected' = FALSE
    /\ pc' = [pc EXCEPT ![t] = "returned"]
    /\ UNCHANGED <<ws_app, on_connect_callback, reconnect_count, wait_time, cur,
                   closing, loopObs, sendObs, bufVars, cbObs, stopRaised, httpVars,
                   webVars>>

\* run_forever raises (before or after on_open) without running on_close;
\* run_ws logs it in `except Exception` and counts the failure.  Once
\* close() has been called run_forever ends by its teardown instead
RunForeverRaises(t) ==
    /\ pc[t] = "run"
    /\ ~closing[cur[t]]
    /\ sock' = [sock EXCEPT ![cur[t]] = "none"]
    /\ CountFailure(t)
    /\ UNCHANGED <<agentVars, cur, closing, attempts, stoppedIn, sendObs,
                   bufVars, cbObs, stopRaised, httpVars, webVars>>

\* run_ws after run_forever returned: `if not self.connected: break`,
\* otherwise the return is counted as a failure
AfterReturn(t) ==
    /\ pc[t] = "returned"
    /\ IF ~connected
       THEN /\ pc' = [pc EXCEPT ![t] = "done"]
            /\ UNCHANGED <<reconnect_count, wait_time, waits>>
       ELSE CountFailure(t)
    /\ UNCHANGED <<agentVars, cur, appVars, attempts, stoppedIn, sendObs,
                   bufVars, cbObs, stopRaised, httpVars, webVars>>

\* run_ws: time.sleep(wait_time) is over
Wake(t) ==
    /\ pc[t] = "sleep"
    /\ pc' = [pc EXCEPT ![t] = "top"]
    /\ UNCHANGED <<agentVars, reconnect_count, wait_time, cur, appVars, loopObs,
                   sendObs, bufVars, cbObs, stopRaised, httpVars, webVars>>

\* stop(): the `except Exception` clause around self.ws_app.close()
StopOnCloseError == [raised |-> FALSE, connected |-> FALSE]

\* stop(): self.ws_app.close() asks run_forever to end (also when it goes on
\* to raise: WebSocketApp.close clears keep_running first), then
\* self.connected = False
Stop ==
    \E closeFailed \in (IF ws_app /= 0 THEN BOOLEAN ELSE {FALSE}) :
        LET e == IF closeFailed THEN StopOnCloseError
                 ELSE [raised |-> FALSE, connected |-> FALSE] IN
        /\ closing' = IF ws_app /= 0
                      THEN [closing EXCEPT ![ws_app] = TRUE]
                      ELSE closing
        /\ connected' = e.connected
        /\ stoppedIn' = [t \in Threads |-> pc[t]]
        /\ stopRaised' = e.raised
        /\ UNCHANGED <<ws_app, on_connect_callback, threadVars, sock, attempts,
                       waits, sendObs, bufVars, cbObs, httpVars, webVars>>

\* `self.on_message_callback = callback` and `self.on_connect_callback =
\* callback`: what the slot holds after a setter is called with `new`
StoreCallbackKeepFirst(old, new) == IF old = 0 THEN new ELSE old
StoreCallback(old, new) == new

\* set_on_connect_callback(callback)
SetOnConnectCallback(cb) ==
    /\ on_connect_callback' = StoreCallback(on_connect_callback, cb)
    /\ registered' = [registered EXCEPT !.connect = cb]
    /\ UNCHANGED <<connected, ws_app, threadVars, appVars, loopObs, sendObs,
                   bufVars, on_message_callback, lastMsg, connectCalls,
                   stopRaised, httpVars, webVars>>

\* set_on_message_callback(callback)
SetOnMessageCallback(cb) ==
    /\ on_message_callback' = StoreCallback(on_message_callback, cb)
    /\ registered' = [registered EXCEPT
                         !.message = [last |-> cb, displaced |-> @.last]]
    /\ UNCHANGED <<agentVars, threadVars, appVars, loopObs, sendObs, bufVars,
                   lastMsg, connectCalls, stopRaised, httpVars, webVars>>

\* ------------------------------------------------- the send operations
\* `if self.connected and self.ws_app:`, the guard of every send operation
ReadyIgnoringConnected == ws_app /= 0
Ready == connected /\ ws_app /= 0

\* WebSocketApp.send can succeed only on an open socket that close() has not
\* been called on; it raises otherwise, and may raise on an open socket too
CanSend == ws_app /= 0 /\ sock[ws_app] = "open" /\ ~closing[ws_app]
SendResults == IF CanSend THEN {TRUE, FALSE} ELSE {FALSE}

\* the else branch of a send operation: a warning is logged; send_audio and
\* send_text return None, send_user_message and interrupt return False
Refused(op) ==
    /\ lastCall' = Call(op, FALSE, FALSE,
                        IF op \in {"send_audio", "send_text"} THEN "None" ELSE "False",
                        connected)
    /\ lastSends' = <<>>
    /\ UNCHANGED connected

\* the `except Exception` clause of each send operation: what the caller
\* sees and what becomes of self.connected
AudioOnErrorUncaught == [raised |-> TRUE, ret |-> "None", connected |-> connected]
AudioOnError == [raised |-> FALSE, ret |-> "None", connected |-> FALSE]
TextOnErrorUncaught == [raised |-> TRUE, ret |-> "None", connected |-> connected]
TextOnError == [raised |-> FALSE, ret |-> "None", connected |-> FALSE]
UserMessageOnError == [raised |-> FALSE, ret |-> "False", connected |-> FALSE]
InterruptOnError == [raised |-> FALSE, ret |-> "False", connected |-> connected]

Failed(op, e, sentBefore) ==
    /\ lastCall' = Call(op, TRUE, e.raised, e.ret, e.connected)
    /\ lastSends' = sentBefore
    /\ connected' = e.connected

Succeeded(op, ret, sends) ==
    /\ lastCall' = Call(op, FALSE, FALSE, ret, connected)
    /\ lastSends' = sends
    /\ UNCHANGED connected

\* self.ws_app.send(audio_data, opcode=0x2): the frame goes on the wire
TransmitTwice(wire, frame) == Append(Append(wire, frame), frame)
Transmit(wire, frame) == Append(wire, frame)

\* send_audio(audio_data); the frame is the next one handed over
SendAudio ==
    LET frame == Len(audioLog) + 1 IN
    /\ Len(audioLog) < MaxFrames
    /\ IF Ready
       THEN \E ok \in SendResults :
               IF ok
               THEN /\ Succeeded("send_audio", "None", <<"audio">>)
                    /\ sentAudio' = Transmit(sentAudio, frame)
                    /\ audioLog' = Append(audioLog, "sent")
               ELSE /\ Failed("send_audio", AudioOnError, <<>>)
                    /\ audioLog' = Append(audioLog, "error")
                    /\ UNCHANGED sentAudio
       ELSE /\ Refused("send_audio")
            /\ audioLog' = Append(audioLog, "warning")
            /\ UNCHANGED sentAudio
    /\ UNCHANGED <<ws_app, on_connect_callback, threadVars, appVars, loopObs,
                   bufVars, cbObs, stopRaised, httpVars, webVars>>

\* send_text(text): one session.update message
SendText ==
    /\ IF Ready
       THEN \E ok \in SendResults :
               IF ok THEN Succeeded("send_text", "None", <<"session.update">>)
               ELSE Failed("send_text", TextOnError, <<>>)
       ELSE Refused("send_text")
    /\ UNCHANGED <<ws_app, on_connect_callback, threadVars, appVars, loopObs,
                   audioLog, sentAudio, bufVars, cbObs, stopRaised, httpVars,
                   webVars>>

\* send_user_message(text): the payloads in the order they are sent
UserMessagePayloadsSwapped == <<"response.create", "conversation.item.create">>
UserMessagePayloads == <<"conversation.item.create", "response.create">>

\* send_user_message(text): the sends are made in order inside one try; the
\* first that raises ends the call in the except clause
SendUserMessage ==
    /\ IF Ready
       THEN \E n \in 0..Len(UserMessagePayloads) :
               /\ n > 0 => CanSend
               /\ IF n = Len(UserMessagePayloads)
                  THEN Succeeded("send_user_message", "True", UserMessagePayloads)
                  ELSE Failed("send_user_message", UserMessageOnError,
                              SubSeq(UserMessagePayloads, 1, n))
       ELSE Refused("send_user_message")
    /\ UNCHANGED <<ws_app, on_connect_callback, threadVars, appVars, loopObs,
                   audioLog, sentAudio, bufVars, cbObs, stopRaised, httpVars,
                   webVars>>

\* interrupt(): one interrupt message
Interrupt ==
    /\ IF Ready
       THEN \E ok \in SendResults :
               IF ok THEN Succeeded("interrupt", "True", <<"interrupt">>)
               ELSE Failed("interrupt", InterruptOnError, <<>>)
       ELSE Refused("interrupt")
    /\ UNCHANGED <<ws_app, on_connect_callback, threadVars, appVars, loopObs,
                   audioLog, sentAudio, bufVars, cbObs, stopRaised, httpVars,
                   webVars>>

\* ------------------------------------------------------ specification
\* the background loop and the callbacks WebSocketApp makes from it
LoopStep ==
    \/ \E t \in Threads : LoopEnter(t)
    \/ \E t \in Threads : LoopExit(t)
    \/ \E t \in Threads : OnOpen(t)
    \/ \E t \in Threads, kind \in MessageKinds : OnMessage(t, kind)
    \/ \E t \in Threads : RunForeverReturns(t)
    \/ \E t \in Threads : RunForeverRaises(t)
    \/ \E t \in Threads : AfterReturn(t)
    \/ \E t \in Threads : Wake(t)

\* the connect() calls made so far
ConnectsMade == Cardinality({t \in Threads : pc[t] /= "none"})

\* the connection lifecycle: up to MaxConnects connect() calls, stop() and
\* callback registration at any time
NextLoop ==
    \/ ConnectsMade < MaxConnects /\ Connect
    \/ Stop
    \/ SetOnConnectCallback(1)
    \/ LoopStep

SpecLoop == Init /\ [][NextLoop]_vars

\* the connection lifecycle with connect() called again at any time, also
\* while the loop an earlier call started is still running
NextMulti ==
    \/ Connect
    \/ Stop
    \/ SetOnConnectCallback(1)
    \/ LoopStep

SpecMulti == Init /\ [][NextMulti]_vars

\* the send operations on an agent that connect() is called on once
Next ==
    \/ ws_app = 0 /\ Connect
    \/ Stop
    \/ SetOnConnectCallback(1)
    \/ SendAudio
    \/ SendText
    \/ SendUserMessage
    \/ Interrupt
    \/ LoopStep

Spec == Init /\ [][Next]_vars

\* inbound dispatch on an agent that connect() is called on once, with the
\* callbacks registered and replaced at any time
NextMsg ==
    \/ ws_app = 0 /\ Connect
    \/ Stop
    \/ \E cb \in Callbacks : SetOnConnectCallback(cb)
    \/ \E cb \in Callbacks : SetOnMessageCallback(cb)
    \/ LoopStep

SpecMsg == Init /\ [][NextMsg]_vars

\* ------------------------------------------------ the Audio Frame Buffer
\* push(frame): the frame joins the buffer behind those already there
EnqueueAtFront(q, f) == <<f>> \o q
Enqueue(q, f) == Append(q, f)

\* recv() can return only when a frame is available
RecvReady(q) == q /= <<>>

\* push(frame) by producer p, whose frames are numbered in its own order; it
\* never blocks
Push(p) ==
    LET f == <<p, nextFrame[p]>> IN
    /\ Len(pushed) < MaxPush
    /\ queue' = Enqueue(queue, f)
    /\ pushed' = Append(pushed, f)
    /\ nextFrame' = [nextFrame EXCEPT ![p] = @ + 1]
    /\ UNCHANGED <<received, consumer, agentVars, threadVars, appVars, loopObs,
                   sendObs, cbObs, stopRaised, httpVars, webVars>>

\* the consumer calls recv() and is suspended in it
RecvCall ==
    /\ consumer = "idle"
    /\ Len(received) < MaxPush
    /\ consumer' = "in_recv"
    /\ UNCHANGED <<queue, pushed, received, nextFrame, agentVars, threadVars,
                   appVars, loopObs, sendObs, cbObs, stopRaised, httpVars,
                   webVars>>

\* recv() returns the oldest unread frame
RecvReturn ==
    /\ consumer = "in_recv"
    /\ RecvReady(queue)
    /\ received' = Append(received, Head(queue))
    /\ queue' = Tail(queue)
    /\ consumer' = "idle"
    /\ UNCHANGED <<pushed, nextFrame, agentVars, threadVars, appVars, loopObs,
                   sendObs, cbObs, stopRaised, httpVars, webVars>>

NextBuf ==
    \/ \E p \in Producers : Push(p)
    \/ RecvCall
    \/ RecvReturn

SpecBuf == Init /\ [][NextBuf]_vars

\* ------------------------------------------- the process and GET /session
\* VoiceAgent.__init__: `if not self.api_key: raise ValueError(...)`
AgentHasKey == api_key

\* VoiceAgent(): the constructor raises ValueError when OPENAI_API_KEY is not
\* set, and no agent exists then
Construct ==
    /\ agent = "none"
    /\ agent' = IF AgentHasKey THEN "constructed" ELSE "ValueError"
    /\ UNCHANGED <<agentVars, threadVars, appVars, loopObs, sendObs, bufVars,
                   cbObs, stopRaised, api_key, sreq, bridgeVars, webVars>>

\* get_session: `if not api_key: raise HTTPException(status_code=500, ...)`
SessionHasKeyAlways == TRUE
SessionHasKey == api_key

\* get_session: `if response.status != 200: raise HTTPException(...)`
FetchOkBelow500(status) == status < 500
FetchOk(status) == status = 200

\* what the token-issuing endpoint does with the POST: it answers with a
\* status, or the request raises (0)
UpstreamOutcomes == {0, 200, 401, 500}

\* get_session: `except Exception` turns every exception raised inside the
\* try, the HTTPException of the status test included, into
\* HTTPException(status_code=500, detail="Internal error: ...")
SessionOnError(up, read) ==
    [pc |-> "done", posted |-> TRUE, upstream |-> up, status |-> 500,
     body |-> "error", read |-> read]

\* GET /session, up to the POST: without OPENAI_API_KEY the handler raises
\* HTTPException(500) at once, otherwise it posts to the token-issuing
\* endpoint and awaits the response
GetSessionCall(r) ==
    /\ sreq[r].pc = "idle"
    /\ \A q \in Requests : q < r => sreq[q].pc /= "idle"
    /\ sreq' = [sreq EXCEPT ![r] =
                  IF SessionHasKey
                  THEN [@ EXCEPT !.pc = "posted", !.posted = TRUE]
                  ELSE [@ EXCEPT !.pc = "done", !.status = 500,
                                 !.body = "error"]]
    /\ UNCHANGED <<agentVars, threadVars, appVars, loopObs, sendObs, bufVars,
                   cbObs, stopRaised, api_key, agent, bridgeVars, webVars>>

\* GET /session, from the response on: a status other than 200 raises, a 200
\* response is read as JSON (which may raise) and returned to the caller
GetSessionResponse(r, up) ==
    /\ sreq[r].pc = "posted"
    /\ \E readOk \in BOOLEAN :
          sreq' = [sreq EXCEPT ![r] =
                     IF up = 0 \/ ~FetchOk(up) THEN SessionOnError(up, FALSE)
                     ELSE IF ~readOk THEN SessionOnError(up, TRUE)
                     ELSE [pc |-> "done", posted |-> TRUE, upstream |-> up,
                           status |-> 200, body |-> "payload", read |-> TRUE]]
    /\ UNCHANGED <<agentVars, threadVars, appVars, loopObs, sendObs, bufVars,
                   cbObs, stopRaised, api_key, agent, bridgeVars, webVars>>

\* the process from startup: the agent is constructed, connect() is called on
\* it once and its background loop runs, and /session requests are served
NextApi ==
    \/ Construct
    \/ agent = "constructed" /\ ws_app = 0 /\ Connect
    \/ \E r \in Requests : GetSessionCall(r)
    \/ \E r \in Requests, up \in UpstreamOutcomes : GetSessionResponse(r, up)
    \/ LoopStep

SpecApi == InitApi /\ [][NextApi]_vars

\* --------------------------------------------- the Peer Connection Bridge
\* the sdp field of the JSON body posted to the downstream endpoint
OfferKinds == {"missing", "empty", "wellformed"}

\* the handshake states of a downstream connection, in order
HandshakeOrder == <<"offer_received", "remote_description_set",
                    "local_answer_created", "local_description_set">>

\* the offer payload is validated: it must be present and non-empty
ValidOfferIfPresent(o) == o /= "missing"
ValidOffer(o) == o = "wellformed"

\* the state a handshake step that succeeds leads to
NextStateSkippingAnswer(st) ==
    IF st = "offer_received" THEN "remote_description_set"
    ELSE "local_description_set"
NextState(st) ==
    HandshakeOrder[(CHOOSE i \in 1..Len(HandshakeOrder) : HandshakeOrder[i] = st) + 1]

\* the state a downstream connection is in ("none": no connection exists)
DState(c) == IF dtrace[c] = <<>> THEN "none" ELSE dtrace[c][Len(dtrace[c])]

\* the responses of the downstream endpoint
InvalidOfferResponse == [status |-> 400, field |-> "error", value |-> "message"]
HandshakeErrorResponse == [status |-> 500, field |-> "error", value |-> "message"]
AnswerResponse == [status |-> 200, field |-> "sdp", value |-> "answer"]

\* a client posts an offer: an invalid one is answered 400 and no connection
\* is constructed; a valid one constructs a connection in offer_received
ReceiveOffer(c, o) ==
    /\ doffer[c] = "none"
    /\ \A b \in Connections : b < c => doffer[b] /= "none"
    /\ doffer' = [doffer EXCEPT ![c] = o]
    /\ IF ValidOffer(o)
       THEN /\ dtrace' = [dtrace EXCEPT ![c] = <<"offer_received">>]
            /\ UNCHANGED dresp
       ELSE /\ dresp' = [dresp EXCEPT ![c] = InvalidOfferResponse]
            /\ UNCHANGED dtrace
    /\ UNCHANGED <<agentVars, threadVars, appVars, loopObs, sendObs, bufVars,
                   cbObs, stopRaised, apiVars, webVars>>

\* one handshake step (set remote description, create the local answer, set
\* the local description): it succeeds, or it raises, which closes the
\* connection and is answered 500; nothing is retried
HandshakeStep(c) ==
    /\ DState(c) \in {"offer_received", "remote_description_set",
                      "local_answer_created"}
    /\ \E ok \in BOOLEAN :
          IF ok
          THEN /\ dtrace' = [dtrace EXCEPT ![c] = Append(@, NextState(DState(c)))]
               /\ UNCHANGED dresp
          ELSE /\ dtrace' = [dtrace EXCEPT ![c] = Append(@, "closed")]
               /\ dresp' = [dresp EXCEPT ![c] = HandshakeErrorResponse]
    /\ UNCHANGED <<agentVars, threadVars, appVars, loopObs, sendObs, bufVars,
                   cbObs, stopRaised, apiVars, doffer, webVars>>

\* the handshake is complete: the local answer is returned to the client
ReturnAnswer(c) ==
    /\ DState(c) = "local_description_set"
    /\ dresp[c] = NoResponse
    /\ dresp' = [dresp EXCEPT ![c] = AnswerResponse]
    /\ UNCHANGED <<agentVars, threadVars, appVars, loopObs, sendObs, bufVars,
                   cbObs, stopRaised, apiVars, doffer, dtrace, webVars>>

\* the answered connection becomes active
Activate(c) ==
    /\ DState(c) = "local_description_set"
    /\ dresp[c] /= NoResponse
    /\ dtrace' = [dtrace EXCEPT ![c] = Append(@, "active")]
    /\ UNCHANGED <<agentVars, threadVars, appVars, loopObs, sendObs, bufVars,
                   cbObs, stopRaised, apiVars, doffer, dresp, webVars>>

\* the client disconnects: the answered connection is closed
CloseConnection(c) ==
    /\ DState(c) \in {"local_description_set", "active"}
    /\ dresp[c] /= NoResponse
    /\ dtrace' = [dtrace EXCEPT ![c] = Append(@, "closed")]
    /\ UNCHANGED <<agentVars, threadVars, appVars, loopObs, sendObs, bufVars,
                   cbObs, stopRaised, apiVars, doffer, dresp, webVars>>

\* downstream clients submit offers, also concurrently
NextBridge ==
    \/ \E c \in Connections, o \in OfferKinds : ReceiveOffer(c, o)
    \/ \E c \in Connections : HandshakeStep(c)
    \/ \E c \in Connections : ReturnAnswer(c)
    \/ \E c \in Connections : Activate(c)
    \/ \E c \in Connections : CloseConnection(c)

SpecBridge == Init /\ [][NextBridge]_vars

\* ------------------------------------------------- the chat session store
\* the messages of a history: <<"system", n>> is the resume context the n-th
\* update_session call inserted, <<"user", c>> and <<"assistant", c>> are the
\* message and the response of chat call c
IsSystem(m) == m[1] = "system"
IsVisible(m) == m[1] /= "system"

\* chat: the two entries appended for call c
InteractionSwapped(c) == <<<<"assistant", c>>, <<"user", c>>>>
Interaction(c) == <<<<"user", c>>, <<"assistant", c>>>>

\* chat: `[...][-20:]`
KeepVisibleOldest(v) == IF Len(v) <= VisibleKept THEN v ELSE SubSeq(v, 1, VisibleKept)
KeepVisible(v) ==
    IF Len(v) <= VisibleKept THEN v
    ELSE SubSeq(v, Len(v) - VisibleKept + 1, Len(v))

\* chat: the history stored for a history h left by the appends
Trim(h) ==
    IF Len(h) > TrimLimit
    THEN SelectSeq(h, IsSystem) \o KeepVisible(SelectSeq(h, IsVisible))
    ELSE h

\* update_session: `chat_sessions[request.session_id].insert(0, resume_context)`
InsertContextLast(h, m) == Append(h, m)
InsertContext(h, m) == <<m>> \o h

\* the history chat_sessions holds for the session
Stored == IF sessions = 0 THEN <<>> ELSE lists[sessions]

\* the list objects some reference is held to, and a fresh one
Held(sess, calls) == {sess} \cup {x.ref : x \in calls}
FreshList(sess, calls) ==
    CHOOSE l \in ListIds :
        /\ l \notin Held(sess, calls)
        /\ \A k \in ListIds : k < l => k \in Held(sess, calls)

\* list objects nothing refers to any more are forgotten
Collect(ls, sess, calls) ==
    [l \in ListIds |-> IF l \in Held(sess, calls) THEN ls[l] ELSE <<>>]

\* what the resume_data of an update_session request can be: absent or
\* empty, a resume analysis, or one whose skills `', '.join` cannot join
UpdateKinds == {"none", "resume", "unjoinable"}

\* update_session(request): the session's list is created if there is none;
\* resume data is formatted into a system message and inserted at the front
\* of the list object chat_sessions holds; an exception is answered 500
UpdateSession(kind) ==
    LET ref == IF sessions = 0 THEN FreshList(0, inflight) ELSE sessions
        n == updates + 1
    IN
    /\ updates < MaxUpdates
    /\ updates' = n
    /\ sessions' = ref
    /\ lists' = IF kind = "resume"
                THEN [lists EXCEPT ![ref] = InsertContext(@, <<"system", n>>)]
                ELSE lists
    /\ lastUpdate' = [n |-> n, kind |-> kind,
                      status |-> IF kind = "unjoinable" THEN 500 ELSE 200]
    /\ UNCHANGED <<agentVars, threadVars, appVars, loopObs, sendObs, bufVars,
                   cbObs, stopRaised, httpVars, inflight, nextChat, lastChat,
                   uploadVars>>

\* what a chat request can be: not a job request, or a job request whose
\* search returns results, returns none, or raises, or whose results
\* format_job_results_html raises on
ChatKinds == {"plain", "job.results", "job.empty", "job.raises",
              "job.unformattable"}

\* chat: where the response comes from.  The inner `except Exception` sends
\* a job request whose search or formatting raised to the prompt handler
ChatSourceRaising(req) ==
    CASE req = "job.results" -> "jobs"
      [] req \in {"job.raises", "job.unformattable"} -> "HTTPException"
      [] OTHER -> "prompt"
ChatSource(req) == IF req = "job.results" THEN "jobs" ELSE "prompt"

\* chat, from the appends to the return, for call c holding list object ref:
\* the interaction is appended to that object, and chat_sessions is bound to
\* a new trimmed list when it has grown past the limit, to that object
\* otherwise
StoreInteraction(c, ref, req, src, waiting) ==
    LET h == lists[ref] \o Interaction(c)
        new == FreshList(sessions, waiting \cup {[id |-> c, ref |-> ref, req |-> req]})
        sess == IF Len(h) > TrimLimit THEN new ELSE ref
        ls == [l \in ListIds |->
                 IF l = ref THEN h
                 ELSE IF l = sess THEN Trim(h) ELSE lists[l]]
    IN
    /\ sessions' = sess
    /\ inflight' = waiting
    /\ lists' = Collect(ls, sess, waiting)
    /\ lastChat' = [id |-> c, req |-> req, src |-> src, status |-> 200,
                    others |-> Cardinality(waiting)]

\* chat(message), up to the model invocation: the session's list is created
\* if there is none and the call keeps a reference to the list object.  A job
\* request with formatted results goes on to the end without suspending; any
\* other awaits prompt_handler.generate_response
ChatStart(req) ==
    LET c == nextChat
        ref == IF sessions = 0 THEN FreshList(0, inflight) ELSE sessions
        src == ChatSource(req)
    IN
    /\ c <= MaxChats
    /\ nextChat' = c + 1
    /\ CASE src = "jobs" ->
              /\ StoreInteraction(c, ref, req, src, inflight)
         [] src = "prompt" ->
              /\ Cardinality(inflight) < MaxInFlight
              /\ sessions' = ref
              /\ inflight' = inflight \cup {[id |-> c, ref |-> ref, req |-> req]}
              /\ UNCHANGED <<lists, lastChat>>
         [] OTHER ->
              /\ sessions' = ref
              /\ lastChat' = [id |-> c, req |-> req, src |-> src,
                              status |-> 500, others |-> Cardinality(inflight)]
              /\ UNCHANGED <<lists, inflight>>
    /\ UNCHANGED <<agentVars, threadVars, appVars, loopObs, sendObs, bufVars,
                   cbObs, stopRaised, httpVars, updates, lastUpdate, uploadVars>>

\* chat(message), from the return of generate_response (which returns an
\* apology instead of raising) to the end
ChatComplete(x) ==
    /\ x \in inflight
    /\ StoreInteraction(x.id, x.ref, x.req, "prompt", inflight \ {x})
    /\ UNCHANGED <<agentVars, threadVars, appVars, loopObs, sendObs, bufVars,
                   cbObs, stopRaised, httpVars, nextChat, updates, lastUpdate,
                   uploadVars>>

ChatRecords == [id : 1..MaxChats, ref : ListIds, req : ChatKinds]

\* one chat session over a few calls: update_session and chat requests of
\* every kind in any order, chat calls overlapping at the model invocation
NextChat ==
    \/ \E kind \in UpdateKinds : UpdateSession(kind)
    \/ \E req \in ChatKinds : nextChat <= MaxKindChats /\ ChatStart(req)
    \/ \E x \in ChatRecords : ChatComplete(x)

SpecChat == Init /\ [][NextChat]_vars

\* the history a session has after k chat calls made one after the other
RECURSIVE Sequential(_)
Sequential(k) == IF k = 0 THEN <<>> ELSE Sequential(k - 1) \o Interaction(k)

\* the system messages u update_session calls with resume data leave at the
\* front of the history, the latest first
Contexts(u) == [i \in 1..u |-> <<"system", u + 1 - i>>]

\* how many chat calls a long session has completed
PriorChats == (MaxChats - 2 * MaxKindChats)..(MaxChats - 1)

\* a session that has completed k chat calls one after the other and then u
\* update_session calls with resume data, no call being in progress
InitLongSession ==
    /\ api_key = TRUE
    /\ agent = "constructed"
    /\ InitAgent
    /\ InitHttp
    /\ inflight = {}
    /\ sessions = 1
    /\ \E k \in PriorChats : \E u \in 0..(MaxUpdates - 1) :
          /\ lists = [l \in ListIds |->
                        IF l = 1 THEN Contexts(u) \o Sequential(k) ELSE <<>>]
          /\ nextChat = k + 1
          /\ updates = u
          /\ lastChat = [id |-> k, req |-> "plain", src |-> "prompt",
                         status |-> 200, others |-> 0]
          /\ lastUpdate = IF u = 0 THEN NoUpdate
                          ELSE [n |-> u, kind |-> "resume", status |-> 200]

\* one chat session over a long conversation: resume uploads and plain chat
\* requests in any order, chat calls overlapping at the model invocation
NextHistory ==
    \/ UpdateSession("resume")
    \/ ChatStart("plain")
    \/ \E x \in ChatRecords : ChatComplete(x)

SpecHistory == Init /\ [][NextHistory]_vars

\* update_session and chat on a session that already has a long history
SpecLongSession == InitLongSession /\ [][NextHistory]_vars

\* --------------------------------------------------------- upload_resume
\* what follows the write of the temporary file, in the order of the awaits:
\* extraction, storage, analysis
AfterStage(stage) == IF stage = "extracting" THEN "storing" ELSE "analyzing"

\* the `except Exception` of upload_resume: the error is logged and answered
\* 500; the temporary file is not touched
UploadOnError(rec) == [rec EXCEPT !.pc = "done", !.status = 500]

\* upload_resume(background_tasks, file), up to the first await:
\* temp_path = f"temp/{file.filename}"
UploadCall(u, name) ==
    /\ upload[u].pc = "idle"
    /\ upload' = [upload EXCEPT ![u] = [pc |-> "reading", name |-> name,
                                        wrote |-> FALSE, status |-> 0]]
    /\ UNCHANGED <<agentVars, threadVars, appVars, loopObs, sendObs, bufVars,
                   cbObs, stopRaised, httpVars, chatVars, files, removals>>

\* content = await file.read(), then the file is written under temp/; either
\* can raise
UploadWrite(u, done) ==
    /\ upload[u].pc = "reading"
    /\ IF done
       THEN /\ files' = files \cup {upload[u].name}
            /\ upload' = [upload EXCEPT ![u].pc = "extracting", ![u].wrote = TRUE]
       ELSE /\ files' = files
            /\ upload' = [upload EXCEPT ![u] = UploadOnError(@)]
    /\ UNCHANGED <<agentVars, threadVars, appVars, loopObs, sendObs, bufVars,
                   cbObs, stopRaised, httpVars, chatVars, removals>>

\* await extract_text_from_pdf(temp_path), await store_resume_in_vectordb(...)
UploadProcess(u, done) ==
    /\ upload[u].pc \in {"extracting", "storing"}
    /\ upload' = [upload EXCEPT ![u] = IF done THEN [@ EXCEPT !.pc = AfterStage(@)]
                                        ELSE UploadOnError(@)]
    /\ UNCHANGED <<agentVars, threadVars, appVars, loopObs, sendObs, bufVars,
                   cbObs, stopRaised, httpVars, chatVars, files, removals>>

\* await analyze_resume(resume_text) and the rest of the handler, which does
\* not suspend: the job matching (its failure gives no matches), the
\* defaults of the analysis, background_tasks.add_task(os.remove, temp_path)
\* and the return
UploadAnalyze(u, done) ==
    /\ upload[u].pc = "analyzing"
    /\ IF done
       THEN /\ removals' = removals \cup {u}
            /\ upload' = [upload EXCEPT ![u].pc = "done", ![u].status = 200]
       ELSE /\ removals' = removals
            /\ upload' = [upload EXCEPT ![u] = UploadOnError(@)]
    /\ UNCHANGED <<agentVars, threadVars, appVars, loopObs, sendObs, bufVars,
                   cbObs, stopRaised, httpVars, chatVars, files>>

\* the background task os.remove(temp_path), run after the response; on a
\* path that is no longer there it raises and the task ends
RemoveTask(u) ==
    /\ u \in removals
    /\ removals' = removals \ {u}
    /\ files' = files \ {upload[u].name}
    /\ UNCHANGED <<agentVars, threadVars, appVars, loopObs, sendObs, bufVars,
                   cbObs, stopRaised, httpVars, chatVars, upload>>

NextUpload ==
    \/ \E u \in Uploads : \E name \in FileNames : UploadCall(u, name)
    \/ \E u \in Uploads : \E done \in BOOLEAN : UploadWrite(u, done)
    \/ \E u \in Uploads : \E done \in BOOLEAN : UploadProcess(u, done)
    \/ \E u \in Uploads : \E done \in BOOLEAN : UploadAnalyze(u, done)
    \/ \E u \in Uploads : RemoveTask(u)

\* the event loop runs every call and every background task to its end
SpecUpload == Init /\ [][NextUpload]_vars /\ WF_vars(NextUpload)

\* ---------------------------------------------------------------- claims

\* C1: for one connect() call the background loop makes at most 5 connection
\* attempts; once 5 attempts have failed the loop is at its end (it has given
\* up, or is about to leave the while loop) having made exactly 5 attempts,
\* and that thread makes no further attempt.
C1_AtMostFiveAttempts ==
    \A t \in Threads :
        /\ attempts[t] <= 5
        /\ reconnect_count[t] <= 5
        /\ reconnect_count[t] = 5 => attempts[t] = 5 /\ pc[t] \in {"top", "done"}

C1_Witness ==
    \E t \in Threads : pc[t] = "done" /\ reconnect_count[t] = 5 /\ attempts[t] = 5

\* C2: automatic retry.  A loop whose connection ended abnormally (run_forever
\* raised, or the connection was dropped and on_close ran) goes on to another
\* attempt while attempts remain: with no stop() called, the loop has not
\* ended before its 5 attempts are used.
C2_AutoRetry ==
    \A t \in Threads :
        (pc[t] = "done" /\ stoppedIn[t] = "none" /\ cur[t] /= 0 /\ ~closing[cur[t]])
            => attempts[t] = 5

\* C3: once stop() has been called while the loop was inside run_forever or
\* asleep in the backoff wait, the loop starts no new connection attempt
\* (until connect() is called again).
C3_NoAttemptAfterStop ==
    [][\A t \in Threads :
          stoppedIn[t] \in {"run", "sleep"} => attempts'[t] = attempts[t]]_vars

\* C4: reconnection exhaustion.  When the loop has given up after 5 failed
\* attempts the agent is disconnected: connected is False.
C4_ExhaustedIsDisconnected ==
    \A t \in Threads : (pc[t] = "done" /\ reconnect_count[t] = 5) => ~connected

C6_DisconnectedSendIsNoOp ==
    (lastCall.op \in {"send_audio", "send_text"} /\ ~lastCall.was) =>
        /\ ~lastCall.raised
        /\ ~lastCall.failed
        /\ lastSends = <<>>
        /\ lastCall.now = FALSE
        /\ lastCall.ret = "None"

C6_Witness ==
    /\ lastCall.op \in {"send_audio", "send_text"}
    /\ ~lastCall.was
    /\ ws_app /= 0
    /\ sock[ws_app] = "open"

\* C7: a transport send that fails inside send_audio, send_text,
\* send_user_message or interrupt is never raised to the caller: the call
\* returns normally, with False from send_user_message and interrupt.
C7_SendErrorNotRaised ==
    lastCall.failed =>
        /\ lastCall.was
        /\ ~lastCall.raised
        /\ lastCall.op \in {"send_user_message", "interrupt"} => lastCall.ret = "False"
        /\ lastCall.op \in {"send_audio", "send_text"} => lastCall.ret = "None"

C7_Witness == lastCall.failed /\ lastCall.op = "send_audio"

\* C8: send_user_message sends conversation.item.create, then response.create
\* only if the first was sent without error; it returns True exactly when both
\* were sent, False otherwise (also when disconnected), and never raises.
C8_UserMessage ==
    lastCall.op = "send_user_message" =>
        /\ ~lastCall.raised
        /\ lastCall.ret \in {"True", "False"}
        /\ lastSends \in {<<>>, <<"conversation.item.create">>,
                          <<"conversation.item.create", "response.create">>}
        /\ lastCall.ret = "True" <=>
              lastSends = <<"conversation.item.create", "response.create">>
        /\ ~lastCall.was => lastSends = <<>>

C8_Witness ==
    /\ lastCall.op = "send_user_message"
    /\ lastCall.failed
    /\ lastSends = <<"conversation.item.create">>

\* C9 as claimed: the frames transmitted upstream are exactly the frames
\* handed to send_audio, in the same order, none dropped.
C9_AllFramesTransmitted == sentAudio = [i \in 1..Len(audioLog) |-> i]

\* C9 as amended: the frames transmitted are, in the order they were handed
\* to send_audio and each exactly once, those handed over while the agent was
\* connected and whose transport send succeeded; every other frame is dropped
\* with a logged warning (disconnected) or error (the send raised).
C9_TransmittedInOrder ==
    LET sentIds == {i \in 1..Len(audioLog) : audioLog[i] = "sent"} IN
    /\ Len(sentAudio) = Cardinality(sentIds)
    /\ \A j \in 1..Len(sentAudio) : sentAudio[j] \in sentIds
    /\ \A j, k \in 1..Len(sentAudio) : j < k => sentAudio[j] < sentAudio[k]
    /\ \A i \in 1..Len(audioLog) : audioLog[i] \in {"sent", "warning", "error"}
    /\ lastCall.op = "send_audio" =>
          audioLog[Len(audioLog)] =
              IF ~lastCall.was THEN "warning"
              ELSE IF lastCall.failed THEN "error" ELSE "sent"

C9_Witness ==
    /\ Len(sentAudio) >= 2
    /\ Len(sentAudio) < Len(audioLog)

\* C10: the frames recv() has returned, followed by those still buffered, are
\* the frames pushed, in push order: recv() returns the frames in the order
\* they were pushed, one per call, none lost and none twice, also when two
\* producers push; recv() has returned no more frames than were pushed, so
\* it has never returned on an empty buffer.
C10_BufferFifo ==
    /\ received \o queue = pushed
    /\ Len(received) <= Len(pushed)
    /\ \A i, j \in 1..Len(received) : i /= j => received[i] /= received[j]
    /\ \A i, j \in 1..Len(pushed) :
          (i < j /\ pushed[i][1] = pushed[j][1]) => pushed[i][2] < pushed[j][2]

C10_Witness ==
    /\ Len(received) >= 3
    /\ \E i, j \in 1..Len(received) : received[i][1] /= received[j][1]
    /\ consumer = "in_recv"
    /\ queue = <<>>

\* C11: at most one upstream session at a time.  After any sequence of
\* connect(), stop() and connection events on one agent, connect() called again
\* while an earlier loop still runs included, at most one upstream connection
\* is live (being established or open) and at most one background loop runs.
C11_OneSessionAtATime ==
    /\ Cardinality({a \in Apps : sock[a] /= "none"}) <= 1
    /\ Cardinality({t \in Threads : pc[t] \notin {"none", "done"}}) <= 1

\* C12: for each established connection the registered on_connect_callback is
\* invoked exactly once, whatever the interleaving of on_open, an incoming
\* session.created event and failing send operations: no connection sees the
\* callback invoked a second time (stop() not having been called).
C12_ConnectCallbackOnce ==
    \A a \in Apps :
        (sock[a] = "open" /\ \A t \in Threads : stoppedIn[t] = "none")
            => connectCalls[a] <= 1

\* C13: callback registration is single-slot, last writer wins.  Each slot
\* holds the callable its setter was last called with, and an inbound message
\* is delivered to the callable set_on_message_callback was last called with
\* before the message was handled, never to one it displaced.
C13_LastWriterWins ==
    /\ on_message_callback = registered.message.last
    /\ on_connect_callback = registered.connect
    /\ lastMsg.calls > 0 => lastMsg.to = lastMsg.want

C13_Witness ==
    /\ lastMsg.calls = 1
    /\ lastMsg.old = 1
    /\ lastMsg.to = 2
    /\ on_connect_callback = 2

\* C14: inbound dispatch.  Every binary message is passed unchanged to the
\* registered message callback exactly once; every text message that is
\* well-formed JSON is parsed and passed to it exactly once; a text message
\* that is not JSON invokes the callback zero times, changes no state of the
\* agent and raises nothing out of on_message.
C14_InboundDispatch ==
    /\ lastMsg.kind = "binary" => lastMsg.calls = 1 /\ lastMsg.arg = "message"
    /\ lastMsg.kind \in MessageKinds \ {"binary", "malformed"} =>
          lastMsg.calls = 1 /\ lastMsg.arg = "data" /\ ~lastMsg.raised
    /\ lastMsg.kind = "malformed" =>
          lastMsg.calls = 0 /\ ~lastMsg.changed /\ ~lastMsg.raised

\* C15: stop() sets the state to disconnected.  connected is False when
\* stop() returns and stays False until connect() is called again, whatever
\* inbound messages or callbacks are delivered after stop().
C15_StopStaysDisconnected ==
    (\E t \in Threads : stoppedIn[t] /= "none") => ~connected

\* C17: errors of the background loop never propagate.  A connect() step only
\* starts the loop: it returns with the new thread not yet at its first
\* attempt and with connected and the sockets as they were.  A step that counts
\* a failed attempt changes nothing a caller sees.  No call of send_audio,
\* send_text or stop() ever raises, also after attempts have failed.
C17_LoopErrorsNotPropagated ==
    [][/\ ~stopRaised'
       /\ lastCall'.op \in {"send_audio", "send_text"} => ~lastCall'.raised
       /\ ws_app' /= ws_app =>
             /\ pc[ws_app'] = "none" /\ pc'[ws_app'] = "top"
             /\ attempts'[ws_app'] = 0
             /\ UNCHANGED <<connected, sock, lastCall, stopRaised>>
       /\ (\E t \in Threads : reconnect_count'[t] /= reconnect_count[t]) =>
             UNCHANGED <<connected, ws_app, lastCall, stopRaised>>]_vars

C17_Witness ==
    /\ reconnect_count[1] >= 1
    /\ sock[1] = "none"
    /\ lastCall.op = "send_text"
    /\ lastCall.failed
    /\ stoppedIn[1] /= "none"

\* C16: a missing credential is a configuration error raised at once, before
\* any network call.  Without OPENAI_API_KEY no VoiceAgent is ever
\* constructed, so no connection thread is started, and every /session
\* request fails with an error without having posted to the token-issuing
\* endpoint.
C16_MissingCredential ==
    ~api_key =>
        /\ agent /= "constructed"
        /\ \A t \in Threads : pc[t] = "none"
        /\ \A r \in Requests :
              /\ ~sreq[r].posted
              /\ sreq[r].pc \in {"idle", "done"}
              /\ sreq[r].pc = "done" =>
                    sreq[r].status = 500 /\ sreq[r].body = "error"

C16_Witness ==
    /\ ~api_key
    /\ agent = "ValueError"
    /\ sreq[1].pc = "done"

\* C20: a credential-fetch failure stops session setup.  When the
\* token-issuing endpoint answers with a status other than 200 the /session
\* request fails with an error response, the response body is not read and no
\* credential payload is returned; a payload is returned only for a 200.
C20_FetchFailureStops ==
    \A r \in Requests :
        /\ (sreq[r].pc = "done" /\ sreq[r].upstream \notin {0, 200}) =>
              /\ sreq[r].status >= 400
              /\ sreq[r].body = "error"
              /\ ~sreq[r].read
        /\ sreq[r].body = "payload" =>
              sreq[r].upstream = 200 /\ sreq[r].status = 200

C20_Witness ==
    /\ sreq[1].pc = "done"
    /\ sreq[1].upstream = 401
    /\ sreq[2].body = "payload"

\* C18 as claimed: an offer whose sdp field is empty or missing is answered
\* with a 400-class response carrying an error field and no downstream
\* connection is created; a well-formed offer is answered with a 200-class
\* response carrying a non-empty sdp answer.
C18_OfferOutcome ==
    \A c \in Connections :
        dresp[c] /= NoResponse =>
            IF doffer[c] \in {"missing", "empty"}
            THEN /\ dresp[c].status \in 400..499
                 /\ dresp[c].field = "error"
                 /\ dtrace[c] = <<>>
            ELSE /\ dresp[c].status \in 200..299
                 /\ dresp[c].field = "sdp"
                 /\ dresp[c].value /= ""

\* C18 as amended: an offer whose sdp field is empty or missing is answered
\* with a 400-class response carrying an error field and no downstream
\* connection is ever created for it; a well-formed offer is answered with a
\* 200-class response carrying a non-empty sdp answer when its handshake
\* completes, and with a 500-class response carrying an error field when a
\* handshake step raises.
C18_OfferOutcomeOrHandshakeError ==
    \A c \in Connections :
        /\ doffer[c] \in {"missing", "empty"} =>
              /\ dresp[c].status \in 400..499
              /\ dresp[c].field = "error"
              /\ dtrace[c] = <<>>
        /\ (doffer[c] = "wellformed" /\ dresp[c] /= NoResponse) =>
              \/ /\ dresp[c].status \in 200..299
                 /\ dresp[c].field = "sdp"
                 /\ dresp[c].value /= ""
                 /\ \E i \in 1..Len(dtrace[c]) :
                       dtrace[c][i] = "local_description_set"
              \/ /\ dresp[c].status \in 500..599
                 /\ dresp[c].field = "error"
                 /\ \E i \in 1..Len(dtrace[c]) : dtrace[c][i] = "closed"
                 /\ \A i \in 1..Len(dtrace[c]) :
                       dtrace[c][i] /= "local_description_set"

C18_Witness ==
    /\ doffer[1] = "empty" /\ dresp[1].status = 400
    /\ doffer[2] = "wellformed" /\ dresp[2].status = 200

\* C19: each downstream connection moves through offer_received,
\* remote_description_set, local_answer_created, local_description_set in that
\* order, then active or closed, skipping and revisiting no state; the answer
\* is returned only after local_description_set; a step that fails closes the
\* connection, which is then not retried.
C19_HandshakeOrder ==
    \A c \in Connections :
        LET tr == dtrace[c]
            n == Len(tr)
            k == Cardinality({i \in 1..n : tr[i] \notin {"active", "closed"}})
        IN
        /\ k <= Len(HandshakeOrder)
        /\ \A i \in 1..k : tr[i] = HandshakeOrder[i]
        /\ n <= k + 2
        /\ n >= k + 1 => tr[k + 1] \in {"active", "closed"}
        /\ n = k + 2 => tr[k + 1] = "active" /\ tr[k + 2] = "closed"
        /\ (n > k /\ tr[k + 1] = "active") => k = Len(HandshakeOrder)
        /\ dresp[c].status = 200 => k = Len(HandshakeOrder)
        /\ dresp[c].status = 500 => tr[n] = "closed" /\ k < Len(HandshakeOrder)

C19_Witness ==
    /\ dtrace[1] = <<"offer_received", "remote_description_set", "closed">>
    /\ dresp[1].status = 500
    /\ dtrace[2] = HandshakeOrder \o <<"active", "closed">>

C22_InteractionStored ==
    [][(lastChat'.id /= lastChat.id /\ lastChat'.status = 200) =>
          /\ Len(Stored') >= 2
          /\ Stored'[Len(Stored') - 1] = <<"user", lastChat'.id>>
          /\ Stored'[Len(Stored')] = <<"assistant", lastChat'.id>>]_vars

C22_Witness ==
    /\ lastChat.status = 200
    /\ lastChat.others >= 1
    /\ lastChat.id < nextChat - 1
    /\ Len(Stored) >= 4
    /\ Stored[Len(Stored) - 1] = <<"user", lastChat.id>>
    /\ Stored[Len(Stored)] = <<"assistant", lastChat.id>>

\* C23 as claimed: when a chat call has completed, the session's history
\* holds at most 22 messages (20 visible ones plus at most 2 system messages).
C23_HistoryBounded ==
    [][lastChat'.id /= lastChat.id => Len(Stored') <= TrimLimit]_vars

\* C25: a job query whose search raises or returns nothing is answered by
\* the prompt handler: the call succeeds, never with an HTTP error, and its
\* user message and the handler's response are the last two entries stored.
C25_JobQueryFallback ==
    lastChat.req \in {"job.empty", "job.raises"} =>
        /\ lastChat.src = "prompt"
        /\ lastChat.status = 200
        /\ Len(Stored) >= 2
        /\ Stored[Len(Stored) - 1] = <<"user", lastChat.id>>
        /\ Stored[Len(Stored)] = <<"assistant", lastChat.id>>

C25_Witness ==
    /\ lastChat.req = "job.raises"
    /\ lastChat.src = "prompt"
    /\ lastChat.status = 200
    /\ Stored[Len(Stored)] = <<"assistant", lastChat.id>>
    /\ \E i \in 1..Len(Stored) : Stored[i][1] = "system"

\* C26: when a chat call has appended its interaction, a history of more
\* than 22 entries is stored as all its system messages, in their order,
\* followed by its 20 most recent non-system messages, in their order; a
\* history of 22 entries or fewer is stored unchanged.
C26_TrimResult ==
    [][\A x \in inflight : x \notin inflight' =>
          LET h == lists[x.ref] \o <<<<"user", x.id>>, <<"assistant", x.id>>>>
              sys == SelectSeq(h, IsSystem)
              vis == SelectSeq(h, IsVisible)
              drop == IF Len(vis) > VisibleKept THEN Len(vis) - VisibleKept ELSE 0
              recent == [i \in 1..(Len(vis) - drop) |-> vis[drop + i]]
          IN  Stored' = IF Len(h) > TrimLimit THEN sys \o recent ELSE h]_vars

C26_Witness ==
    /\ lastChat.id >= 11
    /\ Len(SelectSeq(Stored, IsSystem)) >= 2
    /\ Len(SelectSeq(Stored, IsVisible)) = VisibleKept
    /\ Stored[1][1] = "system"
    /\ \A i \in 1..Len(Stored) : Stored[i][2] /= 1 \/ Stored[i][1] = "system"
    /\ Stored[Len(Stored)] = <<"assistant", lastChat.id>>

\* C28 as claimed: a resume context that update_session has inserted into a
\* session is never lost: it stays in the session's stored history, also
\* when chat calls that began before the update complete after it.
C28_ContextKept ==
    \A k \in 1..updates :
        \E i \in 1..Len(Stored) : Stored[i] = <<"system", k>>

\* C24 as claimed: for every upload_resume call that wrote its temporary
\* file, the file is eventually deleted, whether the call succeeds or fails
\* in extraction, storage or analysis.
C24_TempFileDeleted ==
    \A u \in Uploads : [](upload[u].wrote => <>(upload[u].name \notin files))

\* C27 as claimed: the connected flag tracks the socket: in every reachable
\* state connected is True only if an upstream connection is open, and while
\* a connection is open (and has not been asked to close) connected is not
\* False.
C27_FlagTracksSocket ==
    /\ connected => \E a \in Apps : sock[a] = "open"
    /\ (\E a \in Apps : sock[a] = "open" /\ ~closing[a]) => connected

\* C29 as claimed: every failed transport send marks the client
\* disconnected: when send_audio, send_text, send_user_message or interrupt
\* has met a transport error, connected is False as the call returns.
C29_FailedSendDisconnects ==
    (/\ lastCall.op \in {"send_audio", "send_text", "send_user_message", "interrupt"}
     /\ lastCall.failed)
        => lastCall.now = FALSE

====
